---- MODULE Spec2Model ----
(***************************************************************************)
(* Model of functions/reply_reviews.py: the review-reply pipeline          *)
(*   reply_reviews -> fetch_gmb_reviews -> reply_to_unreplied_reviews      *)
(*                 -> generate_review_replies_batch -> post_review_reply   *)
(* The review platform and the generation service are the environment:     *)
(* every network call is one step whose outcome is chosen by \E.           *)
(*                                                                         *)
(* Encodings.  A timestamp is an integer (time units); Malformed is a      *)
(* createTime text that does not match the strptime format.  A comment is  *)
(* a sequence of characters.  reviewReply is <<>> when the review has no   *)
(* reply and <<text>> when it has one.  A reply text is the number of the  *)
(* review it was written about (OwnerText for a reply that was on the      *)
(* platform before the first run).  A page token is the number of the page *)
(* it asks for; NoToken is the absent token.                               *)
(***************************************************************************)
EXTENDS Integers, Sequences, FiniteSets, TLC

VARIABLES
    platform,          \* environment: reviewId -> review record held by the platform
    feed,              \* environment: the pages of the reviews endpoint, each a sequence of reviewIds
    pc,                \* position of the run
    run,               \* number of runs (HTTP requests) started
    cutoff_date,       \* fetch_gmb_reviews: cutoff_date
    reviews,           \* fetch_gmb_reviews: reviews (and reply_reviews: reviews once returned)
    next_page_token,   \* fetch_gmb_reviews: next_page_token
    unreplied_reviews, \* reply_to_unreplied_reviews: unreplied_reviews
    i,                 \* generate_review_replies_batch: loop variable i (0-based start of the batch)
    all_replies,       \* generate_review_replies_batch: all_replies (and replies once returned)
    k,                 \* reply_to_unreplied_reviews: number of zip pairs already consumed
    response,          \* reply_reviews: the HTTP response of the run
    request,           \* reply_reviews: the days parameter of the request, as text
    credentials,       \* the shared credentials object: "none" (no token yet), "valid", "expired"
    inflight,          \* the network calls sent and not yet answered
    trace,             \* history: the token checks and network calls of this run, in order
    pageRequests,      \* history: page tokens of the page requests of this run, in order
    genCalls,          \* history: the generation requests of this run: batch, response, drafts kept
    publishCalls       \* history: the post_review_reply calls of all runs

vars == << platform, feed, pc, run, cutoff_date, reviews, next_page_token,
           unreplied_reviews, i, all_replies, k, response, request,
           credentials, inflight, trace, pageRequests, genCalls, publishCalls >>

----------------------------------------------------------------------------
(* Bounds of the model *)

NumReviews == 3
MaxPages == 3
MaxTime == 2
MaxRuns == 2
BatchSize == 2

(* Values *)

Ids == 1..NumReviews
Times == 0..MaxTime
Now == MaxTime
Malformed == -1
NoToken == 0
OwnerText == 0
UnknownId == NumReviews + 1

Min(a, b) == IF a < b THEN a ELSE b

SeqSum(s) ==
    LET RECURSIVE Sum(_)
        Sum(n) == IF n = 0 THEN 0 ELSE s[n] + Sum(n - 1)
    IN Sum(Len(s))

Flatten(ss) ==
    LET RECURSIVE Cat(_)
        Cat(n) == IF n = 0 THEN << >> ELSE Cat(n - 1) \o ss[n]
    IN Cat(Len(ss))

----------------------------------------------------------------------------
(* The review platform *)

\* GET .../reviews?pageToken=...: the page asked for, built from the platform's
\* current records; nextPageToken is present on every page but the last.
PageResponse(token) ==
    LET p == IF token = NoToken THEN 1 ELSE token
    IN [ reviews |-> [ n \in 1..Len(feed[p]) |-> platform[feed[p][n]] ],
         nextPageToken |-> IF p < Len(feed) THEN p + 1 ELSE NoToken ]

\* The feeds: the reviews 1..NumReviews in this order, cut into at most MaxPages
\* pages (a page may be empty).  Any order of creation times is obtained through
\* the createTime of each review.
PageSizes ==
    UNION { { s \in [1..n -> 0..NumReviews] : SeqSum(s) = NumReviews } : n \in 1..MaxPages }

FeedOf(sizes) ==
    [ p \in 1..Len(sizes) |->
        [ n \in 1..sizes[p] |-> SeqSum(SubSeq(sizes, 1, p - 1)) + n ] ]

Feeds == { FeedOf(s) : s \in PageSizes }

----------------------------------------------------------------------------
(* Pure functions of the code *)

\* datetime.strptime(review["createTime"], "%Y-%m-%dT%H:%M:%S.%fZ") succeeds
WellFormed(t) == t \in Times

\* a filter that drops the reviews whose createTime it cannot read
PageParsesLeniently(page) == TRUE

\* the list comprehension of fetch_gmb_reviews raises iff some createTime is malformed
PageParses(page) == \A n \in 1..Len(page) : WellFormed(page[n].createTime)

QualifiesReversed(review, cutoff) == review.createTime <= cutoff

QualifiesStrict(review, cutoff) == review.createTime > cutoff

Qualifies(review, cutoff) == review.createTime >= cutoff

FilterPage(page, cutoff) == SelectSeq(page, LAMBDA r : Qualifies(r, cutoff))

\* "if not next_page_token or not filtered_reviews: break"
StopsOnTokenOnly(token, filtered) == token = NoToken

Stops(token, filtered) == token = NoToken \/ filtered = << >>

\* str.strip(): drop leading and trailing whitespace
RECURSIVE LStrip(_)
LStrip(c) == IF c # << >> /\ Head(c) = " " THEN LStrip(Tail(c)) ELSE c

RECURSIVE RStrip(_)
RStrip(c) == IF c # << >> /\ c[Len(c)] = " " THEN RStrip(SubSeq(c, 1, Len(c) - 1)) ELSE c

Strip(c) == RStrip(LStrip(c))

EligibleNoStrip(r) == r.reviewReply = << >> /\ r.comment # << >>

EligibleIgnoresReply(r) == Strip(r.comment) # << >>

\* "not r.get('reviewReply') and r.get('comment', '').strip()"
Eligible(r) == r.reviewReply = << >> /\ Strip(r.comment) # << >>

EligibleOf(rs) == SelectSeq(rs, Eligible)

----------------------------------------------------------------------------
(* reply_reviews: the request *)

\* the digits of a decimal text
Digits == << "0", "1", "2", "3", "4", "5", "6", "7", "8", "9" >>

IsDigit(ch) == \E d \in 1..Len(Digits) : Digits[d] = ch

DigitValue(ch) == (CHOOSE d \in 1..Len(Digits) : Digits[d] = ch) - 1

\* the decimal text of an integer
RECURSIVE NatText(_)
NatText(n) == IF n < Len(Digits) THEN << Digits[n + 1] >>
              ELSE Append(NatText(n \div Len(Digits)), Digits[(n % Len(Digits)) + 1])

IntText(n) == IF n < 0 THEN << "-" >> \o NatText(-n) ELSE NatText(n)

RECURSIVE NatValue(_)
NatValue(t) == IF t = << >> THEN 0
               ELSE Len(Digits) * NatValue(SubSeq(t, 1, Len(t) - 1)) + DigitValue(t[Len(t)])

AllDigits(t) == t # << >> /\ \A n \in 1..Len(t) : IsDigit(t[n])

\* int(days) does not raise: an optional sign followed by digits
ParsesAsInt(t) ==
    \/ AllDigits(t)
    \/ t # << >> /\ Head(t) \in { "-", "+" } /\ AllDigits(Tail(t))

\* int(days)
IntValue(t) ==
    IF Head(t) = "-" THEN 0 - NatValue(Tail(t))
    ELSE IF Head(t) = "+" THEN NatValue(Tail(t))
    ELSE NatValue(t)

NoResponse == [ status |-> 0, count |-> -1, error |-> "" ]

\* lines 326-328 (and line 319 for status 400): the error response
ErrorResponse(status, message) == [ status |-> status, count |-> -1, error |-> message ]

FetchHttpError == "Failed to fetch reviews"

FetchUnexpectedError == "Unexpected error fetching reviews"

PostError == "Failed to post reply"

DaysError == "Days must be an integer"

\* The events of the trace: a token check (detail: the state of the credentials
\* it found), a network call, and the answer to a network call (detail: what came
\* back; ok: the caller did not raise)
TokenCheck(cred, refreshed, ok) ==
    [ event |-> "token", detail |-> cred, refreshed |-> refreshed, ok |-> ok ]

Call(kind) == [ event |-> kind, detail |-> "", refreshed |-> FALSE, ok |-> TRUE ]

Answer(detail, ok) == [ event |-> "answer", detail |-> detail, refreshed |-> FALSE, ok |-> ok ]

\* lines 315-319: int(days) raises and the request is answered 400
RejectDays(days) ==
    /\ pc = "idle"
    /\ run < MaxRuns
    /\ ~ParsesAsInt(days)
    /\ run' = run + 1
    /\ request' = days
    /\ response' = ErrorResponse(400, DaysError)
    /\ reviews' = << >>
    /\ next_page_token' = NoToken
    /\ unreplied_reviews' = << >>
    /\ i' = 0
    /\ all_replies' = << >>
    /\ k' = 0
    /\ pageRequests' = << >>
    /\ genCalls' = << >>
    /\ trace' = << >>
    /\ UNCHANGED << platform, feed, pc, cutoff_date, credentials, inflight, publishCalls >>

\* lines 308-321: the request is accepted and fetch_gmb_reviews starts with
\* cutoff_date = utcnow() - timedelta(days)
StartRun(days) ==
    /\ pc = "idle"
    /\ run < MaxRuns
    /\ run' = run + 1
    /\ request' = IntText(days)
    /\ cutoff_date' = Now - days
    /\ reviews' = << >>
    /\ next_page_token' = NoToken
    /\ unreplied_reviews' = << >>
    /\ i' = 0
    /\ all_replies' = << >>
    /\ k' = 0
    /\ response' = NoResponse
    /\ pageRequests' = << >>
    /\ genCalls' = << >>
    /\ trace' = << >>
    /\ pc' = "fetch"
    /\ UNCHANGED << platform, feed, credentials, inflight, publishCalls >>

\* the request with its days parameter as text
HandleRequest(days) ==
    \/ RejectDays(days)
    \/ ParsesAsInt(days) /\ StartRun(IntValue(days))

----------------------------------------------------------------------------
(* get_access_token, lines 88-98 *)

NeedsRefreshOnlyExpired(cred) == cred = "expired"

\* "credentials.expired or not credentials.valid"
NeedsRefresh(cred) == cred = "expired" \/ cred # "valid"

\* the token check made with the credentials in state cred, refreshOk telling
\* whether credentials.refresh succeeds if it is called
GetAccessToken(cred, refreshOk) ==
    TokenCheck(cred, NeedsRefresh(cred), ~NeedsRefresh(cred) \/ refreshOk)

CredentialsAfter(cred, refreshOk) ==
    IF NeedsRefresh(cred) /\ refreshOk THEN "valid" ELSE cred

\* the token expires with time
Expire ==
    /\ credentials = "valid"
    /\ credentials' = "expired"
    /\ UNCHANGED << platform, feed, pc, run, cutoff_date, reviews, next_page_token,
                    unreplied_reviews, i, all_replies, k, response, request,
                    inflight, trace, pageRequests, genCalls, publishCalls >>

----------------------------------------------------------------------------
(* The position of a coroutine that awaits the answer of a network call *)

NotAwaitedPublish(stage) ==
    CASE stage = "fetch" -> "fetch_wait"
      [] stage = "generate" -> "generate_wait"
      [] stage = "publish" -> "publish"

\* "async with session.get(...)", "await openai_client...create(...)",
\* "async with session.put(...)": the caller is suspended until the answer
Suspended(stage) ==
    CASE stage = "fetch" -> "fetch_wait"
      [] stage = "generate" -> "generate_wait"
      [] stage = "publish" -> "publish_wait"

----------------------------------------------------------------------------
(* fetch_gmb_reviews: one iteration of the while loop, lines 121-157 *)

PageParamsDropsToken(token) == NoToken

\* line 123: params = {"pageToken": next_page_token} if next_page_token else {}
PageParams(token) == token

\* lines 125-129: the token check, then the GET of the page
RequestPage(refreshOk) ==
    /\ pc = "fetch"
    /\ credentials' = CredentialsAfter(credentials, refreshOk)
    /\ IF GetAccessToken(credentials, refreshOk).ok
       THEN /\ trace' = trace \o << GetAccessToken(credentials, refreshOk), Call("page") >>
            /\ pageRequests' = Append(pageRequests, PageParams(next_page_token))
            /\ inflight' = Append(inflight, "page")
            /\ pc' = Suspended("fetch")
            /\ UNCHANGED response
       ELSE \* get_access_token raises RuntimeError, caught at line 155
            /\ trace' = Append(trace, GetAccessToken(credentials, refreshOk))
            /\ response' = ErrorResponse(500, FetchUnexpectedError)
            /\ pc' = "idle"
            /\ UNCHANGED << pageRequests, inflight >>
    /\ UNCHANGED << platform, feed, run, cutoff_date, reviews, next_page_token,
                    unreplied_reviews, i, all_replies, k, request, genCalls,
                    publishCalls >>

FetchFailures == { "404", "status", "network" }

\* a fetch that swallows the failure and returns the reviews collected so far
FetchPageFailsReturnsPartial(failure) ==
    /\ pc = "fetch_wait"
    /\ inflight' = << >>
    /\ trace' = Append(trace, Answer(failure, FALSE))
    /\ pc' = "reply"
    /\ UNCHANGED << platform, feed, run, cutoff_date, reviews, next_page_token,
                    unreplied_reviews, i, all_replies, k, response, request,
                    credentials, pageRequests, genCalls, publishCalls >>

\* the request failed: 404 or another non-2xx status (ClientResponseError, line
\* 152), a network failure or a timeout (line 155): RuntimeError, caught in
\* reply_reviews
FetchPageFails(failure) ==
    /\ pc = "fetch_wait"
    /\ inflight' = << >>
    /\ trace' = Append(trace, Answer(failure, FALSE))
    /\ response' = ErrorResponse(500, IF failure = "network" THEN FetchUnexpectedError
                                      ELSE FetchHttpError)
    /\ pc' = "idle"
    /\ UNCHANGED << platform, feed, run, cutoff_date, reviews, next_page_token,
                    unreplied_reviews, i, all_replies, k, request, credentials,
                    pageRequests, genCalls, publishCalls >>

\* the page arrives with status 200
FetchPage ==
    /\ pc = "fetch_wait"
    /\ inflight' = << >>
    /\ LET data == PageResponse(pageRequests[Len(pageRequests)])
           filtered_reviews == FilterPage(data.reviews, cutoff_date)
       IN IF ~PageParses(data.reviews)
          THEN \* strptime raises ValueError -> RuntimeError -> 500
               /\ trace' = Append(trace, Answer("200", FALSE))
               /\ response' = ErrorResponse(500, FetchUnexpectedError)
               /\ pc' = "idle"
               /\ UNCHANGED << reviews, next_page_token >>
          ELSE /\ trace' = Append(trace, Answer("200", TRUE))
               /\ reviews' = reviews \o filtered_reviews
               /\ next_page_token' = data.nextPageToken
               /\ pc' = IF Stops(data.nextPageToken, filtered_reviews)
                        THEN "reply" ELSE "fetch"
               /\ UNCHANGED response
    /\ UNCHANGED << platform, feed, run, cutoff_date, unreplied_reviews, i,
                    all_replies, k, request, credentials, pageRequests,
                    genCalls, publishCalls >>

----------------------------------------------------------------------------
(* reply_to_unreplied_reviews, lines 264-267: the eligible set *)

Ok200(rs) == [ status |-> 200, count |-> Len(EligibleOf(rs)), error |-> "" ]

SelectUnreplied ==
    /\ pc = "reply"
    /\ unreplied_reviews' = EligibleOf(reviews)
    /\ IF EligibleOf(reviews) = << >>
       THEN \* return; reply_reviews answers 200
            /\ response' = Ok200(reviews)
            /\ pc' = "idle"
       ELSE /\ pc' = "generate"
            /\ UNCHANGED response
    /\ UNCHANGED << platform, feed, run, cutoff_date, reviews, next_page_token, i,
                    all_replies, k, request, credentials, inflight, trace,
                    pageRequests, genCalls, publishCalls >>

----------------------------------------------------------------------------
(* The generation service and the parsing of its response *)

\* An element of the JSON array of a response
Draft(id) ==
    [ isDict |-> TRUE, keys |-> {"review_id", "reply_text"}, review_id |-> id, reply_text |-> id ]

NoTextElement(id) ==
    [ isDict |-> TRUE, keys |-> {"review_id"}, review_id |-> id, reply_text |-> OwnerText ]

NotADict ==
    [ isDict |-> FALSE, keys |-> {}, review_id |-> UnknownId, reply_text |-> OwnerText ]

\* A completion: error is an exception of the call (timeout, rate limit, 5xx);
\* otherwise the content is open \o body \o close, where body is the text of a
\* JSON array (kind "array") of the elements value, of a JSON object (kind
\* "object") or no JSON at all (kind "garbage").
Completion(error, open, kind, value, close) ==
    [ error |-> error, open |-> open, kind |-> kind, value |-> value, close |-> close ]

ServiceError == Completion(TRUE, "", "garbage", << >>, "")

Bare(value) == Completion(FALSE, "", "array", value, "")

\* The markdown fences: three backquotes followed by "json", and three backquotes
JsonFence == "fence:json"

PlainFence == "fence:"

\* lines 217-220: startswith(JsonFence) drops the opening, endswith(PlainFence)
\* drops the closing
StripFence(c) ==
    [ c EXCEPT !.open = IF c.open = JsonFence THEN "" ELSE c.open,
               !.close = IF c.close = PlainFence THEN "" ELSE c.close ]

\* line 222: json.loads succeeds iff what is left is the text of a JSON value
JsonLoads(c) == c.open = "" /\ c.close = "" /\ c.kind # "garbage"

\* the elements the validation loop of lines 224-227 iterates over: the elements
\* of an array, the keys (strings) of an object
Iterated(c) == IF c.kind = "array" THEN c.value ELSE << NotADict >>

\* line 225
ValidReply(reply) ==
    reply.isDict /\ "review_id" \in reply.keys /\ "reply_text" \in reply.keys

\* what the batch adds to all_replies: the parsed list, or nothing when the call,
\* the parse or the validation raised
BatchReplies(c) ==
    IF c.error THEN << >>
    ELSE LET stripped == StripFence(c)
         IN IF ~JsonLoads(stripped) THEN << >>
            ELSE IF \A n \in 1..Len(Iterated(stripped)) : ValidReply(Iterated(stripped)[n])
                 THEN stripped.value
                 ELSE << >>

BatchSkipped(c) ==
    \/ c.error
    \/ ~JsonLoads(StripFence(c))
    \/ \E n \in 1..Len(Iterated(StripFence(c))) : ~ValidReply(Iterated(StripFence(c))[n])

----------------------------------------------------------------------------
(* generate_review_replies_batch: one iteration of the for loop, lines 165-235 *)

BatchAt(rs, start) == SubSeq(rs, start + 1, Min(start + BatchSize, Len(rs)))

NextBatchStartSkipsOne(start) == start + BatchSize + 1

\* range(0, len(reviews), batch_size): the start of the next batch
NextBatchStart(start) == start + BatchSize

AfterBatchAbortsOnSkip(c, start, len) ==
    IF BatchSkipped(c) \/ NextBatchStart(start) >= len THEN "publish" ELSE "generate"

\* the loop goes on to the next batch whatever happened to this one ("continue")
AfterBatch(c, start, len) ==
    IF NextBatchStart(start) >= len THEN "publish" ELSE "generate"

\* line 208: the prompt of the batch is sent to the generation service
RequestBatch ==
    /\ pc = "generate"
    /\ trace' = Append(trace, Call("generate"))
    /\ inflight' = Append(inflight, "generate")
    /\ pc' = Suspended("generate")
    /\ UNCHANGED << platform, feed, run, cutoff_date, reviews, next_page_token,
                    unreplied_reviews, i, all_replies, k, response, request,
                    credentials, pageRequests, genCalls, publishCalls >>

\* the completion c arrives (or the call raises)
GenerateBatch(c) ==
    /\ pc = "generate_wait"
    /\ inflight' = << >>
    /\ trace' = Append(trace, Answer(IF c.error THEN "error" ELSE "completion", TRUE))
    /\ LET batch == BatchAt(unreplied_reviews, i)
       IN /\ genCalls' = Append(genCalls,
                  [ batch |-> batch, completion |-> c, drafts |-> BatchReplies(c) ])
          /\ all_replies' = all_replies \o BatchReplies(c)
          /\ i' = NextBatchStart(i)
          /\ pc' = AfterBatch(c, i, Len(unreplied_reviews))
    /\ UNCHANGED << platform, feed, run, cutoff_date, reviews, next_page_token,
                    unreplied_reviews, k, response, request, credentials,
                    pageRequests, publishCalls >>

----------------------------------------------------------------------------
(* reply_to_unreplied_reviews, lines 273-280, and post_review_reply *)

\* zip(unreplied_reviews, replies)
NumPairs == Min(Len(unreplied_reviews), Len(all_replies))

\* the platform's reply endpoint records the reply on the review
Recorded(id, text) == [ platform EXCEPT ![id].reviewReply = << text >> ]

\* outcome "ok": the PUT returned 2xx.  "rejected": the PUT returned a non-2xx
\* status or never reached the platform.  "lost": the platform recorded the
\* reply and the response did not arrive within the timeout.
PostOutcomes == { "ok", "rejected", "lost" }

\* lines 273-276 and 248-254: the next pair of the zip, the token check, then
\* the PUT of the reply
RequestPost(refreshOk) ==
    /\ pc = "publish"
    /\ k < NumPairs
    /\ credentials' = CredentialsAfter(credentials, refreshOk)
    /\ IF GetAccessToken(credentials, refreshOk).ok
       THEN /\ trace' = trace \o << GetAccessToken(credentials, refreshOk), Call("publish") >>
            /\ inflight' = Append(inflight, "publish")
            /\ pc' = Suspended("publish")
            /\ UNCHANGED response
       ELSE \* get_access_token raises; post_review_reply raises RuntimeError
            /\ trace' = Append(trace, GetAccessToken(credentials, refreshOk))
            /\ response' = ErrorResponse(500, PostError)
            /\ pc' = "idle"
            /\ UNCHANGED inflight
    /\ UNCHANGED << platform, feed, run, cutoff_date, reviews, next_page_token,
                    unreplied_reviews, i, all_replies, k, request, pageRequests,
                    genCalls, publishCalls >>

\* a publish loop that posts the same pair again when the PUT fails
PostReviewReplyRetries(outcome) ==
    /\ pc = "publish_wait"
    /\ k < NumPairs
    /\ inflight' = << >>
    /\ trace' = Append(trace, Answer(outcome, outcome = "ok"))
    /\ LET review == unreplied_reviews[k + 1]
           reply == all_replies[k + 1]
           review_id == review.reviewId
           reply_text == reply.reply_text
       IN /\ publishCalls' = Append(publishCalls,
                  [ run |-> run, pair |-> k + 1, review_id |-> review_id,
                    reply_text |-> reply_text, draft_id |-> reply.review_id,
                    outcome |-> outcome, had_reply |-> platform[review_id].reviewReply # << >> ])
          /\ platform' = IF outcome = "rejected" THEN platform
                         ELSE Recorded(review_id, reply_text)
          /\ k' = IF outcome = "ok" THEN k + 1 ELSE k
          /\ pc' = "publish"
    /\ UNCHANGED << feed, run, cutoff_date, reviews, next_page_token,
                    unreplied_reviews, i, all_replies, response, request,
                    credentials, pageRequests, genCalls >>

\* the answer of the PUT
PostReviewReply(outcome) ==
    /\ pc = "publish_wait"
    /\ k < NumPairs
    /\ inflight' = << >>
    /\ trace' = Append(trace, Answer(outcome, outcome = "ok"))
    /\ LET review == unreplied_reviews[k + 1]
           reply == all_replies[k + 1]
           review_id == review.reviewId
           reply_text == reply.reply_text
       IN /\ publishCalls' = Append(publishCalls,
                  [ run |-> run, pair |-> k + 1, review_id |-> review_id,
                    reply_text |-> reply_text, draft_id |-> reply.review_id,
                    outcome |-> outcome, had_reply |-> platform[review_id].reviewReply # << >> ])
          /\ platform' = IF outcome = "rejected" THEN platform
                         ELSE Recorded(review_id, reply_text)
          /\ IF outcome = "ok"
             THEN /\ k' = k + 1
                  /\ pc' = "publish"
                  /\ UNCHANGED response
             ELSE \* post_review_reply raises RuntimeError; line 280 re-raises it
                  \* and reply_reviews answers 500, lines 326-328
                  /\ response' = ErrorResponse(500, PostError)
                  /\ pc' = "idle"
                  /\ UNCHANGED k
    /\ UNCHANGED << feed, run, cutoff_date, reviews, next_page_token,
                    unreplied_reviews, i, all_replies, request, credentials,
                    pageRequests, genCalls >>

\* the loop is over: reply_reviews answers 200 "Processed N unreplied reviews"
\* with N recomputed from reviews, line 325
Finish ==
    /\ pc = "publish"
    /\ k = NumPairs
    /\ response' = Ok200(reviews)
    /\ pc' = "idle"
    /\ UNCHANGED << platform, feed, run, cutoff_date, reviews, next_page_token,
                    unreplied_reviews, i, all_replies, k, request, credentials,
                    inflight, trace, pageRequests, genCalls, publishCalls >>

----------------------------------------------------------------------------
(* Inputs *)

\* the lookback windows of the requests
Days == 0..MaxTime

\* the request carries no days parameter: request.args.get("days", "1")
DefaultDays == 1

Comments == { << >>, << " " >>, << "a" >>, << " ", "a" >> }

Review(id, t, c, r) ==
    [ reviewId |-> id, createTime |-> t, comment |-> c, reviewReply |-> r ]

Platforms(times, comments, replies) ==
    { [ id \in Ids |-> Review(id, f[id][1], f[id][2], f[id][3]) ] :
        f \in [ Ids -> times \X comments \X replies ] }

\* the arrays a completion may carry for a batch: every sequence of at most
\* maxLen elements, each a draft for a review of the batch or for an unknown
\* review, or an element without reply_text
BatchIds(batch) == { batch[n].reviewId : n \in 1..Len(batch) }

Elements(batch) ==
    { Draft(id) : id \in BatchIds(batch) \cup {UnknownId} } \cup { NoTextElement(UnknownId) }

Arrays(batch, maxLen) ==
    UNION { [ 1..n -> Elements(batch) ] : n \in 0..maxLen }

\* the faithful answer: one draft per review of the batch, in the batch's order
Faithful(batch) == [ n \in 1..Len(batch) |-> Draft(batch[n].reviewId) ]

Idle ==
    /\ pc = "idle"
    /\ run = 0
    /\ cutoff_date = Now
    /\ reviews = << >>
    /\ next_page_token = NoToken
    /\ unreplied_reviews = << >>
    /\ i = 0
    /\ all_replies = << >>
    /\ k = 0
    /\ response = NoResponse
    /\ request = << >>
    /\ credentials = "none"
    /\ inflight = << >>
    /\ trace = << >>
    /\ pageRequests = << >>
    /\ genCalls = << >>
    /\ publishCalls = << >>

----------------------------------------------------------------------------
(* SpecFetch: the fetch of one request, on every feed and every cutoff *)

InitFetch ==
    /\ Idle
    /\ platform \in Platforms(Times \cup {Malformed}, { << "a" >> }, { << >> })
    /\ feed \in Feeds

\* the days parameters of the requests: the texts of -1 .. MaxTime, and texts
\* that are no integer
DaysTexts ==
    { IntText(n) : n \in -1..MaxTime } \cup { << >>, << "a" >>, << "1", ".", "5" >> }

NextFetch ==
    \/ run = 0 /\ \E days \in DaysTexts : HandleRequest(days)
    \/ \E refreshOk \in BOOLEAN : RequestPage(refreshOk)
    \/ FetchPage
    \/ \E failure \in FetchFailures : FetchPageFails(failure)

SpecFetch == InitFetch /\ [][NextFetch]_vars

----------------------------------------------------------------------------
(* SpecGen: generate_review_replies_batch on every list of eligible reviews and
   every answer of the generation service *)

Opens == { "", JsonFence, PlainFence }

Closes == { "", PlainFence }

\* every completion the service may return for a batch: an error, or a text with
\* or without fences around an array of at most one element more than the batch
\* has reviews, around a JSON object, or around no JSON at all
Completions(batch) ==
    {ServiceError} \cup
    { Completion(FALSE, o, b[1], b[2], c) :
        o \in Opens, c \in Closes,
        b \in ({ << "garbage", << >> >>, << "object", << >> >> } \cup
               { << "array", v >> : v \in Arrays(batch, Len(batch) + 1) }) }

\* the non-empty sublists of the reviews 1..NumReviews, all eligible
EligibleLists ==
    { SelectSeq([ id \in Ids |-> Review(id, Now, << "a" >>, << >>) ],
                LAMBDA r : r.reviewId \in S) : S \in (SUBSET Ids) \ {{}} }

InitGen ==
    /\ platform \in Platforms({Now}, { << "a" >> }, { << >> })
    /\ feed = FeedOf(<< NumReviews >>)
    /\ pc = "generate"
    /\ run = 1
    /\ cutoff_date = Now
    /\ unreplied_reviews \in EligibleLists
    /\ reviews = unreplied_reviews
    /\ next_page_token = NoToken
    /\ i = 0
    /\ all_replies = << >>
    /\ k = 0
    /\ response = NoResponse
    /\ request = IntText(DefaultDays)
    /\ credentials = "valid"
    /\ inflight = << >>
    /\ trace = << TokenCheck("none", TRUE, TRUE), Call("page") >>
    /\ pageRequests = << NoToken >>
    /\ genCalls = << >>
    /\ publishCalls = << >>

NextGen ==
    \/ RequestBatch
    \/ \E c \in Completions(BatchAt(unreplied_reviews, i)) : GenerateBatch(c)

SpecGen == InitGen /\ [][NextGen]_vars

----------------------------------------------------------------------------
(* Spec: the whole pipeline, run after run, against a platform that records
   the replies it receives *)

PipelineComments == { << >>, << " " >>, << "a" >> }

\* the feeds of the pipeline: one page, or two (the second one is read when the
\* first is not empty)
PipelineFeeds == { f \in Feeds : Len(f) <= 2 }

\* the completions of the pipeline's generation service: an error, no JSON, or a
\* bare array of drafts for distinct reviews of the batch, in any order
PipelineCompletions(batch) ==
    { ServiceError, Completion(FALSE, "", "garbage", << >>, "") } \cup
    { Bare(v) : v \in { w \in UNION { [ 1..n -> { Draft(id) : id \in BatchIds(batch) } ] :
                                       n \in 0..Len(batch) } :
                          \A m, n \in 1..Len(w) : m # n => w[m] # w[n] } }

\* the platforms of the pipeline: every review with or without a reply, with a
\* blank or a non-blank comment, the first one possibly with an empty comment
PipelinePlatforms ==
    { p \in Platforms({Now}, PipelineComments, { << >>, << OwnerText >> }) :
        \A id \in Ids \ {1} : p[id].comment # << >> }

Init ==
    /\ Idle
    /\ platform \in PipelinePlatforms
    /\ feed \in PipelineFeeds

Next ==
    \/ StartRun(DefaultDays)
    \/ \E refreshOk \in BOOLEAN : RequestPage(refreshOk)
    \/ FetchPage
    \/ \E failure \in FetchFailures : FetchPageFails(failure)
    \/ SelectUnreplied
    \/ RequestBatch
    \/ \E c \in PipelineCompletions(BatchAt(unreplied_reviews, i)) : GenerateBatch(c)
    \/ \E refreshOk \in BOOLEAN : RequestPost(refreshOk)
    \/ \E outcome \in PostOutcomes : PostReviewReply(outcome)
    \/ Finish

Spec == Init /\ [][Next]_vars

----------------------------------------------------------------------------
(* SpecToken: the pipeline with a token that expires at any moment, on a feed
   of reviews that all need a reply *)

InitToken ==
    /\ Idle
    /\ platform \in Platforms({Now}, { << "a" >> }, { << >> })
    /\ feed \in PipelineFeeds

\* the pipeline with a generation service that answers every batch with one
\* draft per review, and a token that may expire between any two steps
NextToken ==
    \/ StartRun(DefaultDays)
    \/ \E refreshOk \in BOOLEAN : RequestPage(refreshOk)
    \/ FetchPage
    \/ \E failure \in FetchFailures : FetchPageFails(failure)
    \/ SelectUnreplied
    \/ RequestBatch
    \/ GenerateBatch(Bare(Faithful(BatchAt(unreplied_reviews, i))))
    \/ \E refreshOk \in BOOLEAN : RequestPost(refreshOk)
    \/ \E outcome \in PostOutcomes : PostReviewReply(outcome)
    \/ Finish
    \/ Expire

SpecToken == InitToken /\ [][NextToken]_vars

----------------------------------------------------------------------------
(* Properties of fetch_gmb_reviews (SpecFetch) *)

\* the fetch of this run returned its list
Fetched == pc = "reply"

PagesRead == Len(pageRequests)

\* page p of the feed carries a review created at or after the cutoff
PageHasRecent(p) ==
    \E n \in 1..Len(feed[p]) :
        /\ platform[feed[p][n]].createTime # Malformed
        /\ platform[feed[p][n]].createTime >= cutoff_date

\* the ids of the feed, page after page
FeedIds == Flatten(feed)

RecentIdsOfFeed ==
    SelectSeq(FeedIds, LAMBDA id : /\ platform[id].createTime # Malformed
                                   /\ platform[id].createTime >= cutoff_date)

ReturnedIds == [ n \in 1..Len(reviews) |-> reviews[n].reviewId ]

\* C3: no review of the list built by fetch_gmb_reviews was created before the
\* cutoff, after every page that was read and when the list is returned.
C3_NoReviewBeforeCutoff ==
    \A n \in 1..Len(reviews) : reviews[n].createTime >= cutoff_date

\* C3 witness: a fetch returned a non-empty list and left out a review of a page
\* it read because the review was created before the cutoff.
C3_Witness ==
    /\ Fetched
    /\ reviews # << >>
    /\ \E p \in 1..PagesRead : \E n \in 1..Len(feed[p]) :
           platform[feed[p][n]].createTime < cutoff_date

\* C4 as stated: on every feed a successful fetch returns exactly the reviews of
\* the whole feed created at or after the cutoff.
C4_ExactOnEveryFeed == Fetched => ReturnedIds = RecentIdsOfFeed

\* no page with a recent review comes after a page without one (every
\* reverse-chronological feed without empty pages is such a feed)
NoRecentAfterStalePage ==
    \A p \in 1..Len(feed) : \A q \in 1..Len(feed) :
        (p < q /\ ~PageHasRecent(p)) => ~PageHasRecent(q)

\* C4 amended: on a feed in which no page with a recent review follows a page
\* without one, a successful fetch returns exactly the reviews of the whole feed
\* created at or after the cutoff, in feed order.
C4_ExactOnOrderedFeed ==
    (Fetched /\ NoRecentAfterStalePage) => ReturnedIds = RecentIdsOfFeed

\* C4 witness: a fetch over two pages or more of such a feed returned some
\* reviews of the feed and not others.
C4_Witness ==
    /\ Fetched
    /\ NoRecentAfterStalePage
    /\ PagesRead >= 2
    /\ reviews # << >>
    /\ Len(reviews) < NumReviews

\* the first page at which the early-exit rule applies: no next-page token (the
\* last page) or no review at or after the cutoff
IsStopPage(p) == p = Len(feed) \/ ~PageHasRecent(p)

\* C5: the number of page requests is bounded whatever the length of the feed:
\* it never exceeds the number of reviews collected plus one, and a fetch that
\* returns has read the pages up to the first one without a recent review or
\* without a next-page token, and no page after it.
C5_BoundedPageRequests ==
    /\ PagesRead <= Len(reviews) + 1
    /\ Fetched => /\ IsStopPage(PagesRead)
                  /\ \A p \in 1..(PagesRead - 1) : ~IsStopPage(p)

\* C5 witness: a fetch read two pages, stopped at a page that carried a
\* next-page token, and left the rest of the feed unread.
C5_Witness ==
    /\ Fetched
    /\ PagesRead = 2
    /\ PagesRead < Len(feed)

----------------------------------------------------------------------------
(* Properties of generate_review_replies_batch (SpecGen) *)

\* the number of batches of a list of len reviews
NumBatches(len) == (len + BatchSize - 1) \div BatchSize

\* batch number b (from 1) of the eligible list
ExpectedBatch(b) ==
    [ n \in 1..(Min(b * BatchSize, Len(unreplied_reviews)) - (b - 1) * BatchSize) |->
        unreplied_reviews[(b - 1) * BatchSize + n] ]

HasBothKeys(e) == e.isDict /\ {"review_id", "reply_text"} \subseteq e.keys

\* the completion is an error of the service, is no JSON, or holds an invalid element
FailedCompletion(c) ==
    \/ c.error
    \/ c.kind = "garbage"
    \/ c.kind = "object"
    \/ \E n \in 1..Len(c.value) : ~HasBothKeys(c.value[n])

\* the completion is a JSON array of valid elements, bare or inside a json fence
WellFormedCompletion(c) ==
    /\ ~c.error
    /\ c.open \in { "", JsonFence }
    /\ c.kind = "array"
    /\ \A n \in 1..Len(c.value) : HasBothKeys(c.value[n])

GenerationReturned == pc = "publish"

\* C6: a batch whose completion is a service error, unparseable or holds an
\* invalid element contributes no draft; the loop still sends every later batch,
\* so that on return every batch has been sent, and the drafts of every
\* well-formed completion are in the result, which is the concatenation of the
\* batches' drafts.
C6_BatchFailuresAreSkipped ==
    /\ \A b \in 1..Len(genCalls) :
          /\ genCalls[b].batch = ExpectedBatch(b)
          /\ FailedCompletion(genCalls[b].completion) => genCalls[b].drafts = << >>
          /\ WellFormedCompletion(genCalls[b].completion)
                => genCalls[b].drafts = genCalls[b].completion.value
    /\ GenerationReturned =>
          /\ Len(genCalls) = NumBatches(Len(unreplied_reviews))
          /\ all_replies = Flatten([ b \in 1..Len(genCalls) |-> genCalls[b].drafts ])

\* C6 witness: the first batch failed and the second batch's drafts were returned.
C6_Witness ==
    /\ GenerationReturned
    /\ Len(genCalls) = 2
    /\ FailedCompletion(genCalls[1].completion)
    /\ WellFormedCompletion(genCalls[2].completion)
    /\ all_replies # << >>

\* C7: the drafts accepted for a batch of N reviews are none, or at most N drafts
\* with pairwise distinct review_ids, each the id of a review of the batch.
C7_DraftsMatchBatch ==
    \A b \in 1..Len(genCalls) :
        LET d == genCalls[b].drafts
            batch == genCalls[b].batch
        IN /\ Len(d) <= Len(batch)
           /\ \A m \in 1..Len(d) : \A n \in 1..Len(d) :
                  m # n => d[m].review_id # d[n].review_id
           /\ \A m \in 1..Len(d) :
                  \E n \in 1..Len(batch) : batch[n].reviewId = d[m].review_id

----------------------------------------------------------------------------
(* Properties of the pipeline (Spec) *)

CallsOfRun == SelectSeq(publishCalls, LAMBDA call : call.run = run)

\* the generation stage of this run returned its drafts
ReachedPublish == unreplied_reviews # << >> /\ i >= Len(unreplied_reviews)

RunEnded == pc = "idle" /\ run > 0

\* C1: once a run has ended, a publish call was attempted for every pair of
\* zip(unreplied_reviews, replies), whichever earlier publish calls failed.
C1_EveryPairAttempted ==
    (RunEnded /\ ReachedPublish) =>
        \A n \in 1..NumPairs : \E c \in 1..Len(CallsOfRun) : CallsOfRun[c].pair = n

\* C2: a run whose fetch stage succeeded ends with the 200 response, never with
\* an error response.
C2_PublishErrorsAbsorbed ==
    [][(pc \in { "reply", "generate", "generate_wait", "publish", "publish_wait" }
            /\ pc' = "idle")
          => response'.status = 200]_vars

NoReplyAndNotBlank(r) ==
    /\ r.reviewReply = << >>
    /\ \E n \in 1..Len(r.comment) : r.comment[n] # " "

Selected ==
    \/ pc \in { "generate", "generate_wait", "publish", "publish_wait" }
    \/ (RunEnded /\ response.status = 200)

\* C8: the eligible set is exactly the fetched reviews that have no reply and a
\* comment that is not blank, in the order of the input, and only such reviews
\* are sent to the generation service.
C8_EligibleSetExact ==
    /\ Selected => unreplied_reviews = SelectSeq(reviews, NoReplyAndNotBlank)
    /\ \A b \in 1..Len(genCalls) : \A n \in 1..Len(genCalls[b].batch) :
           NoReplyAndNotBlank(genCalls[b].batch[n])

\* C8 witness: of three fetched reviews one had a reply, one a blank comment, and
\* the third alone was sent to the generation service.
C8_Witness ==
    /\ Len(reviews) = 3
    /\ Len(genCalls) = 1
    /\ Len(genCalls[1].batch) = 1
    /\ \E n \in 1..3 : reviews[n].reviewReply # << >>
    /\ \E n \in 1..3 : reviews[n].reviewReply = << >> /\ reviews[n].comment = << " " >>

Recording(call) == call.outcome \in { "ok", "lost" }

\* C9: no publish call is made for a review that has a reply on the platform,
\* whether the reply was there before the first run or was recorded in an
\* earlier run, so no review receives two replies.
C9_NoDoubleReply ==
    /\ \A c \in 1..Len(publishCalls) : ~publishCalls[c].had_reply
    /\ \A c \in 1..Len(publishCalls) : \A d \in 1..Len(publishCalls) :
          (c < d /\ Recording(publishCalls[c]))
              => publishCalls[d].review_id # publishCalls[c].review_id

\* C9 witness: the second run has published a reply, after the first run
\* published one to another review.
C9_Witness ==
    /\ run = 2
    /\ \E c \in 1..Len(publishCalls) : \E d \in 1..Len(publishCalls) :
          /\ publishCalls[c].run = 1 /\ Recording(publishCalls[c])
          /\ publishCalls[d].run = 2 /\ Recording(publishCalls[d])

\* C10: the count of the 200 response is the number of reviews for which a
\* publish attempt was made in the run.
C10_CountIsPublishAttempts ==
    (RunEnded /\ response.status = 200) => response.count = Len(CallsOfRun)

----------------------------------------------------------------------------
(* Properties of the failure of a page request (Spec) *)

IsCall(e) == e.event \in { "page", "generate", "publish" }

\* event n of the trace is the failure of a page request: 404, another non-2xx
\* status or a network failure
PageRequestFailed(n) ==
    /\ trace[n].event = "answer"
    /\ trace[n].detail \in FetchFailures

\* C11: a failed page request is the last event of its run: no page request
\* follows it (no retry), the list collected so far is not passed on, no
\* generation or publish call is made, and the run has ended with the 500
\* response.
C11_FetchFailureIsFatal ==
    \A n \in 1..Len(trace) :
        PageRequestFailed(n) =>
            /\ n = Len(trace)
            /\ pc = "idle"
            /\ response.status = 500
            /\ unreplied_reviews = << >>
            /\ genCalls = << >>
            /\ CallsOfRun = << >>
            /\ inflight = << >>

\* C11 witness: the second page request of a run failed after the first page
\* had put reviews in the list.
C11_Witness ==
    /\ Len(pageRequests) = 2
    /\ reviews # << >>
    /\ PageRequestFailed(Len(trace))

----------------------------------------------------------------------------
(* Properties of the days parameter (SpecFetch) *)

\* the text of the days parameter is the decimal text of a positive integer
PositiveIntegerText(t) == \E n \in 1..(MaxTime + 1) : t = NatText(n)

\* C12: a request whose days value is not a positive integer (not an integer,
\* zero, or negative) is rejected with the validation error 400 and no page
\* request is made for it.
C12_DaysIsPositiveInteger ==
    (run > 0 /\ ~PositiveIntegerText(request)) =>
        /\ response.status = 400
        /\ pageRequests = << >>
        /\ pc = "idle"

----------------------------------------------------------------------------
(* Properties of get_access_token (SpecToken) *)

IsPlatformCall(e) == e.event \in { "page", "publish" }

\* C13: every page request and every reply post is immediately preceded by a
\* token check that returned a token; a check that finds the credentials
\* expired or not valid refreshes them; a check whose refresh fails is the last
\* event of the run, so the platform call it guarded is not made.
C13_TokenCheckedBeforeEveryCall ==
    \A n \in 1..Len(trace) :
        /\ IsPlatformCall(trace[n]) =>
               /\ n > 1
               /\ trace[n - 1].event = "token"
               /\ trace[n - 1].ok
        /\ trace[n].event = "token" =>
               /\ trace[n].detail # "valid" => trace[n].refreshed
               /\ ~trace[n].ok => (n = Len(trace) /\ inflight = << >> /\ pc = "idle")

\* C13 witness: a reply was posted after a check that found the token expired
\* and refreshed it, in a run whose first check found no token at all.
C13_Witness ==
    /\ trace # << >>
    /\ trace[1].event = "token" /\ trace[1].detail = "none" /\ trace[1].refreshed
    /\ \E n \in 2..Len(trace) :
           /\ trace[n].event = "publish"
           /\ trace[n - 1].detail = "expired"
           /\ trace[n - 1].refreshed

----------------------------------------------------------------------------
(* Properties of the order of the network calls of a run (Spec) *)

CallsOfKind(kind) == { n \in 1..Len(trace) : trace[n].event = kind }

\* C14: in the trace of a run no page request comes after a generation request
\* and no generation request after a publish request; every call is answered
\* before the next event of the run; at most one call is in flight.
C14_StrictlySequential ==
    /\ Len(inflight) <= 1
    /\ \A n \in CallsOfKind("page") : \A m \in 1..(n - 1) :
           trace[m].event \notin { "generate", "publish" }
    /\ \A n \in CallsOfKind("generate") : \A m \in 1..(n - 1) :
           trace[m].event # "publish"
    /\ \A n \in 1..Len(trace) :
           IsCall(trace[n]) =>
               IF n = Len(trace) THEN inflight = << trace[n].event >>
               ELSE trace[n + 1].event = "answer"

\* C14 witness: a run with two page requests, two generation requests and two
\* publish requests, the second one in flight.
C14_Witness ==
    /\ Cardinality(CallsOfKind("page")) = 2
    /\ Cardinality(CallsOfKind("generate")) = 2
    /\ Cardinality(CallsOfKind("publish")) = 2
    /\ inflight = << "publish" >>

----------------------------------------------------------------------------
(* Properties of the pairing of drafts with reviews (Spec) *)

\* C15: every publish call posts, to the review it addresses, the text of a
\* draft whose review_id is the id of that review.
C15_ReplyGeneratedForItsReview ==
    \A n \in 1..Len(publishCalls) :
        /\ publishCalls[n].draft_id = publishCalls[n].review_id
        /\ publishCalls[n].reply_text = Draft(publishCalls[n].review_id).reply_text

----------------------------------------------------------------------------
(* Properties of the page tokens of fetch_gmb_reviews (SpecFetch) *)

\* the page the platform answers to page request number n
AnsweredPage(n) == PageResponse(pageRequests[n])

\* the page answered to request n carries a next-page token and a review created
\* at or after the cutoff
CarriesTokenAndRecent(n) ==
    /\ AnsweredPage(n).nextPageToken # NoToken
    /\ \E m \in 1..Len(AnsweredPage(n).reviews) :
           /\ AnsweredPage(n).reviews[m].createTime # Malformed
           /\ AnsweredPage(n).reviews[m].createTime >= cutoff_date

\* C16: the first page request carries no token; a page request follows a read
\* page exactly when that page carried a next-page token and a review that
\* passed the cutoff filter, and it carries that page's token.
C16_NextRequestCarriesPageToken ==
    /\ pageRequests # << >> => pageRequests[1] = NoToken
    /\ \A n \in 1..(Len(pageRequests) - 1) :
           /\ CarriesTokenAndRecent(n)
           /\ pageRequests[n + 1] = AnsweredPage(n).nextPageToken
    /\ (pc = "fetch" /\ pageRequests # << >>) => CarriesTokenAndRecent(Len(pageRequests))
    /\ pc = "reply" => ~CarriesTokenAndRecent(Len(pageRequests))

\* C16 witness: a fetch that made three page requests, the second and third
\* with the token of the page before, and returned.
C16_Witness ==
    /\ pc = "reply"
    /\ Len(pageRequests) = 3
    /\ pageRequests[3] # NoToken

----------------------------------------------------------------------------
(* Properties of the batching of generate_review_replies_batch (SpecGen) *)

BatchesSent == Flatten([ b \in 1..Len(genCalls) |-> genCalls[b].batch ])

\* C17: the batches sent are non-empty, hold at most batch_size reviews, and
\* their concatenation is the part of the input list the loop has covered: the
\* whole list on return; the drafts collected are the concatenation, in batch
\* order, of what each batch contributed, which is nothing or the elements of
\* its response in the order of the response.
C17_BatchesPartitionInput ==
    /\ \A b \in 1..Len(genCalls) :
           /\ genCalls[b].batch # << >>
           /\ Len(genCalls[b].batch) <= BatchSize
           /\ genCalls[b].drafts \in { << >>, genCalls[b].completion.value }
    /\ BatchesSent = SubSeq(unreplied_reviews, 1, Len(BatchesSent))
    /\ GenerationReturned => BatchesSent = unreplied_reviews
    /\ all_replies = Flatten([ b \in 1..Len(genCalls) |-> genCalls[b].drafts ])

\* C17 witness: three reviews were sent as a full batch and a batch of one, and
\* both batches contributed drafts.
C17_Witness ==
    /\ GenerationReturned
    /\ Len(genCalls) = 2
    /\ Len(genCalls[1].batch) = BatchSize
    /\ Len(genCalls[2].batch) < BatchSize
    /\ genCalls[1].drafts # << >>
    /\ genCalls[2].drafts # << >>

----------------------------------------------------------------------------
(* Properties of a malformed createTime (SpecFetch) *)

\* the page answered to request n holds a review with a malformed createTime
HasMalformed(n) ==
    \E m \in 1..Len(AnsweredPage(n).reviews) :
        AnsweredPage(n).reviews[m].createTime = Malformed

\* C18: a page holding a malformed createTime is the last page requested: once
\* it is answered the fetch has failed (500), nothing was returned to the reply
\* stage and no further page is requested, that is, the review is not skipped.
C18_MalformedCreateTimeFailsFetch ==
    \A n \in 1..Len(pageRequests) :
        HasMalformed(n) =>
            /\ n = Len(pageRequests)
            /\ \/ pc = "fetch_wait"
               \/ /\ pc = "idle"
                  /\ response.status = 500
                  /\ unreplied_reviews = << >>

\* C18 witness: the second page of a fetch held a malformed createTime, after
\* reviews of the first page had been collected; the page arrived with status
\* 200 and the fetch failed.
C18_Witness ==
    /\ Len(pageRequests) = 2
    /\ HasMalformed(2)
    /\ reviews # << >>
    /\ pc = "idle"
    /\ trace[Len(trace)] = Answer("200", FALSE)

----------------------------------------------------------------------------
(* Properties of a run without eligible reviews (Spec) *)

LastPageCall == CHOOSE n \in CallsOfKind("page") : \A m \in CallsOfKind("page") : m <= n

\* fetch_gmb_reviews returned its list to reply_reviews: the last page request
\* was answered and read, and no token check failed after it
FetchReturned ==
    /\ pc \notin { "fetch", "fetch_wait" }
    /\ CallsOfKind("page") # {}
    /\ LastPageCall < Len(trace)
    /\ trace[LastPageCall + 1].ok
    /\ LastPageCall + 2 <= Len(trace) => trace[LastPageCall + 2].event = "generate"

\* C19: when no fetched review has both no reply and a comment that is not
\* blank (the fetched list may be empty), the run makes no generation call and
\* no publish call, and ends with the 200 response that reports a count of 0.
C19_EmptyEligibleSetIsNoOp ==
    ((\A n \in 1..Len(reviews) : ~NoReplyAndNotBlank(reviews[n])) /\ FetchReturned) =>
        /\ pc \in { "reply", "idle" }
        /\ genCalls = << >>
        /\ CallsOfRun = << >>
        /\ CallsOfKind("generate") = {} /\ CallsOfKind("publish") = {}
        /\ pc = "idle" => /\ response.status = 200
                          /\ response.count = 0
                          /\ response.error = ""

\* C19 witness: a run fetched reviews, one with a reply and one with a blank
\* comment, none eligible, and ended with the count 0.
C19_Witness ==
    /\ RunEnded
    /\ FetchReturned
    /\ \E n \in 1..Len(reviews) : reviews[n].reviewReply # << >>
    /\ \E n \in 1..Len(reviews) : reviews[n].reviewReply = << >> /\ reviews[n].comment = << " " >>
    /\ \A n \in 1..Len(reviews) : ~NoReplyAndNotBlank(reviews[n])
    /\ response.count = 0

----------------------------------------------------------------------------
(* Properties of the removal of markdown fences (SpecGen) *)

\* the wrappings of a response: none, a json fence, a fence without language tag
Wrappings == { << "", "" >>, << JsonFence, PlainFence >>, << PlainFence, PlainFence >> }

\* C20: a response that is a JSON array of valid drafts, bare, inside a json
\* fence or inside a fence without language tag, contributes exactly the drafts
\* of the array.
C20_FenceWrappingIsStripped ==
    \A b \in 1..Len(genCalls) :
        LET c == genCalls[b].completion
        IN (/\ ~c.error
            /\ c.kind = "array"
            /\ \A n \in 1..Len(c.value) : HasBothKeys(c.value[n])
            /\ << c.open, c.close >> \in Wrappings)
               => genCalls[b].drafts = c.value

----------------------------------------------------------------------------
(* Properties of the targets of the publish calls of a run (Spec) *)

\* the fetched reviews with the id of the call's target
TargetsOf(call) == { n \in 1..Len(reviews) : reviews[n].reviewId = call.review_id }

\* C21: every publish call of a run is for a fetched review that has no reply
\* and a comment that is not blank; no two publish calls of the run are for the
\* same review; the run makes at most as many publish calls as it has eligible
\* reviews and at most as many as it has drafts.
C21_PublishTargetsEligibleOnce ==
    /\ \A c \in 1..Len(CallsOfRun) :
           /\ TargetsOf(CallsOfRun[c]) # {}
           /\ \A n \in TargetsOf(CallsOfRun[c]) : NoReplyAndNotBlank(reviews[n])
    /\ \A c \in 1..Len(CallsOfRun) : \A d \in 1..Len(CallsOfRun) :
           c # d => CallsOfRun[c].review_id # CallsOfRun[d].review_id
    /\ Len(CallsOfRun) <= Len(SelectSeq(reviews, NoReplyAndNotBlank))
    /\ Len(CallsOfRun) <= Len(all_replies)

\* C21 witness: a run with three eligible reviews got two drafts, made two
\* publish calls and ended.
C21_Witness ==
    /\ RunEnded
    /\ response.status = 200
    /\ Len(SelectSeq(reviews, NoReplyAndNotBlank)) = 3
    /\ Len(all_replies) = 2
    /\ Len(CallsOfRun) = 2

====
